---- MODULE Spec2Model ----
(***************************************************************************)
(* Model of twitter_insight_agent.py: the startup check of main and        *)
(* TwitterInsightAgent.__init__, the CLI loop of run, analyze_user, the    *)
(* two feed requests of get_user_tweets with its exception handlers, and   *)
(* the retry loop of generate_insights.                                    *)
(*                                                                         *)
(* Text on which the code works character by character (the line read by   *)
(* input(), the completion text, the x-rate-limit-reset header) is a       *)
(* sequence of one-character strings.  A message is a sequence of tokens,  *)
(* one token per literal piece or interpolated value of the f-string.      *)
(* KeyboardInterrupt is delivered at the points where the program blocks:  *)
(* input(), time.sleep() and the three network requests.                   *)
(***************************************************************************)
EXTENDS Integers, Sequences, FiniteSets, TLC

VARIABLES
    pc,          \* position of the single thread of control
    env,         \* the process environment read by __init__
    agent,       \* fields of the TwitterInsightAgent object
    exitCode,    \* exit code of the process, Running while it runs
    username,    \* run: the stripped line read by input()
    interrupted, \* a KeyboardInterrupt was caught by run
    out,         \* the last message printed
    log,         \* pauses, sleeps and requests made for the current handle
    user_info,   \* get_user_tweets: user_response.data
    tweets_response, \* get_user_tweets: tweets_response.data
    rate,        \* get_user_tweets: header and clock seen by the 429 handler
    result,      \* analyze_user: the dict returned by get_user_tweets
    attempt,     \* generate_insights: loop index
    delay,       \* generate_insights: delay computed for the next sleep
    response,    \* generate_insights: outcome of the last requests.post
    insights     \* analyze_user: the string returned by generate_insights

vars == <<pc, env, agent, exitCode, username, interrupted, out, log,
          user_info, tweets_response, rate, result, attempt, delay, response,
          insights>>

----------------------------------------------------------------------------
(* Bounds of the model *)

MaxTextLen == 2      \* longest completion text
MaxChoices == 2      \* most completion choices in one response
MaxHeaderLen == 2    \* longest x-rate-limit-reset header value
MaxEpoch == 3        \* latest value of the clock read by time.time()

(* Program constants *)

max_retries == 3
base_delay == 1
max_results == 5
throttle == 1

Running == -1

SeqsUpTo(S, n) == UNION { [1..k -> S] : k \in 0..n }

----------------------------------------------------------------------------
(* Message tokens *)

Lit(s) == [k |-> "lit", s |-> s, n |-> 0, t |-> <<>>]
Num(n) == [k |-> "num", s |-> "", n |-> n, t |-> <<>>]
Txt(t) == [k |-> "txt", s |-> "", n |-> 0, t |-> t]

(* Character operations *)

IsSpace(c) == c = " "

RECURSIVE LStripSpace(_)
LStripSpace(s) ==
    IF s # <<>> /\ IsSpace(Head(s)) THEN LStripSpace(Tail(s)) ELSE s

RECURSIVE RStripSpace(_)
RStripSpace(s) ==
    IF s # <<>> /\ IsSpace(s[Len(s)])
    THEN RStripSpace(SubSeq(s, 1, Len(s) - 1))
    ELSE s

Strip(s) == RStripSpace(LStripSpace(s))

RECURSIVE LStripAt(_)
LStripAt(s) ==
    IF s # <<>> /\ Head(s) = "@" THEN LStripAt(Tail(s)) ELSE s

LowerChar(c) ==
    CASE c = "Q" -> "q"
      [] c = "U" -> "u"
      [] c = "I" -> "i"
      [] c = "T" -> "t"
      [] c = "E" -> "e"
      [] c = "X" -> "x"
      [] OTHER -> c

Lower(s) == [i \in 1..Len(s) |-> LowerChar(s[i])]

ExitKeywords == { <<"q", "u", "i", "t">>, <<"e", "x", "i", "t">>, <<"q">> }

----------------------------------------------------------------------------
(* Environment and startup *)

Unset == "<unset>"
DefaultModel == "deepseek/deepseek-r1-distill-qwen-7b"

Getenv(v, default) == IF v = Unset THEN default ELSE v

Falsy(v) == v = Unset \/ v = ""

NoAgent == [bearer_token |-> Unset, openrouter_api_key |-> Unset,
            openrouter_model |-> Unset]

ConfigErrorMsg ==
    <<Lit("Configuration Error: "),
      Lit("Missing required API credentials. Please check your .env file.")>>

GoodbyeMsg == <<Lit("Goodbye!")>>

NoUser == [present |-> FALSE, id |-> 0, protected |-> "None"]
NoRate == [seen |-> FALSE, hdr |-> [kind |-> "noresp", val |-> <<>>], now |-> 0]
NoResult == [returned |-> FALSE, success |-> FALSE, error |-> <<>>,
             tweets |-> <<>>, user_info |-> NoUser, tweet_count |-> -1]
NoResponse == [kind |-> "none", status |-> 0, body |-> "", choices |-> <<>>,
               msg |-> ""]
NoInsights == [returned |-> FALSE, text |-> <<>>]

Init ==
    /\ pc = "start"
    /\ env \in [TWITTER_BEARER_TOKEN : {Unset, "", "tok"},
                OPENROUTER_API_KEY : {Unset, "", "key"},
                OPENROUTER_MODEL : {Unset, "m"}]
    /\ agent = NoAgent
    /\ exitCode = Running
    /\ username = <<>>
    /\ interrupted = FALSE
    /\ out = <<>>
    /\ log = <<>>
    /\ user_info = NoUser
    /\ tweets_response = <<>>
    /\ rate = NoRate
    /\ result = NoResult
    /\ attempt = 0
    /\ delay = 0
    /\ response = NoResponse
    /\ insights = NoInsights

(* CredentialsMissing with "and" for the "or" of line 29 *)
CredentialsMissing_And(a) ==
    Falsy(a.bearer_token) /\ Falsy(a.openrouter_api_key)

(* line 29 *)
CredentialsMissing(a) ==
    Falsy(a.bearer_token) \/ Falsy(a.openrouter_api_key)

(* main: construct the agent; ValueError -> sys.exit(1), otherwise run() *)
Startup ==
    /\ pc = "start"
    /\ LET a == [bearer_token |-> Getenv(env.TWITTER_BEARER_TOKEN, Unset),
                 openrouter_api_key |-> Getenv(env.OPENROUTER_API_KEY, Unset),
                 openrouter_model |-> Getenv(env.OPENROUTER_MODEL, DefaultModel)]
       IN /\ agent' = a
          /\ IF CredentialsMissing(a)
             THEN /\ out' = ConfigErrorMsg
                  /\ exitCode' = 1
                  /\ pc' = "exited"
             ELSE /\ out' = <<Lit("Twitter Insight Agent")>>
                  /\ exitCode' = exitCode
                  /\ pc' = "prompt"
    /\ UNCHANGED <<env, username, interrupted, log, user_info,
                   tweets_response, rate, result, attempt, delay, response,
                   insights>>

----------------------------------------------------------------------------
(* The feed API: outcomes of get_user and get_users_tweets *)

Posts == {"p1", "p2"}
Tweets == { [text |-> p] : p \in Posts }   \* the tweet objects of a response
UserIds == {7}
Protected == {"None", "True"}   \* user_info.protected: not sent, or set
HeaderChars == {"0", "2", "-", "x"}
Digits == {"0", "1", "2", "3", "4", "5", "6", "7", "8", "9"}

HeaderVals ==
    { [kind |-> "noresp", val |-> <<>>], [kind |-> "absent", val |-> <<>>] }
    \cup { [kind |-> "val", val |-> v] : v \in SeqsUpTo(HeaderChars, MaxHeaderLen) }

FeedErrors ==
    { [exc |-> "TooManyRequests", hdr |-> h, now |-> n, msg |-> ""] :
          h \in HeaderVals, n \in 1..MaxEpoch }
    \cup { [exc |-> x, hdr |-> [kind |-> "noresp", val |-> <<>>], now |-> 0,
            msg |-> ""] : x \in {"Unauthorized", "Forbidden"} }
    \cup { [exc |-> "Exception", hdr |-> [kind |-> "noresp", val |-> <<>>],
            now |-> 0, msg |-> "boom"] }

DigitVal(c) ==
    CASE c = "0" -> 0 [] c = "1" -> 1 [] c = "2" -> 2 [] c = "3" -> 3
      [] c = "4" -> 4 [] c = "5" -> 5 [] c = "6" -> 6 [] c = "7" -> 7
      [] c = "8" -> 8 [] c = "9" -> 9

RECURSIVE NatVal(_)
NatVal(s) ==
    IF s = <<>> THEN 0
    ELSE 10 * NatVal(SubSeq(s, 1, Len(s) - 1)) + DigitVal(s[Len(s)])

(* int(s) of Python on a header value: an optional sign, then digits *)
Unsigned(s) == IF s # <<>> /\ Head(s) = "-" THEN Tail(s) ELSE s

IsIntLiteral(s) ==
    /\ Unsigned(s) # <<>>
    /\ \A i \in 1..Len(Unsigned(s)) : Unsigned(s)[i] \in Digits

IntOf(s) ==
    IF s # <<>> /\ Head(s) = "-" THEN 0 - NatVal(Tail(s)) ELSE NatVal(s)

(* lines 91-95: the header is converted only when it is a non-empty string *)
HeaderRaises(h) == h.kind = "val" /\ h.val # <<>> /\ ~IsIntLiteral(h.val)

(* lines 91-95: reset_time, as [has, n]; has = FALSE is None or '' *)
ResetTime(h) ==
    IF h.kind = "val" /\ h.val # <<>>
    THEN [has |-> TRUE, n |-> IntOf(h.val)]
    ELSE [has |-> FALSE, n |-> 0]

GenericWaitMsg ==
    <<Lit("Twitter API rate limit exceeded. Please wait 15 minutes and try again.")>>

WaitMsg(w) ==
    <<Lit("Twitter API rate limit exceeded. Please wait "), Num(w),
      Lit(" seconds and try again.")>>

(* RateLimitMsg without the wait_time > 0 test of line 101 *)
RateLimitMsg_NoGuard(h, now) ==
    LET reset_time == ResetTime(h)
        wait_time == reset_time.n - now
    IN IF reset_time.has /\ reset_time.n # 0
       THEN WaitMsg(wait_time)
       ELSE GenericWaitMsg

(* lines 97-102 *)
RateLimitMsg(h, now) ==
    LET reset_time == ResetTime(h)
        wait_time == reset_time.n - now
    IN IF reset_time.has /\ reset_time.n # 0 /\ wait_time > 0
       THEN WaitMsg(wait_time)
       ELSE GenericWaitMsg

UnauthorizedMsg ==
    <<Lit("Twitter API authentication failed. The Bearer Token needs to be from a Twitter Developer App attached to a Project. Please check your credentials in the Twitter Developer Portal.")>>

ForbiddenMsg ==
    <<Lit("Twitter API access forbidden. The Bearer Token needs to be from a Twitter Developer App attached to a Project. Please check your Twitter Developer Portal settings.")>>

FetchErrorMsg(m) == <<Lit("Error fetching tweets: "), Lit(m)>>

NotFoundMsg(u) ==
    <<Lit("User '@"), Txt(u),
      Lit("' not found. Please check the username and try again.")>>

ProtectedMsg(u) ==
    <<Lit("Account '@"), Txt(u),
      Lit("' is private/protected. Cannot access tweets.")>>

Failure(msg, ui) ==
    [returned |-> TRUE, success |-> FALSE, error |-> msg, tweets |-> <<>>,
     user_info |-> ui, tweet_count |-> -1]

(* lines 89-130: the result the except clauses return *)
ExceptResult(e) ==
    CASE e.exc = "TooManyRequests" -> Failure(RateLimitMsg(e.hdr, e.now), NoUser)
      [] e.exc = "Unauthorized" -> Failure(UnauthorizedMsg, NoUser)
      [] e.exc = "Forbidden" -> Failure(ForbiddenMsg, NoUser)
      [] OTHER -> Failure(FetchErrorMsg(e.msg), NoUser)

(* int() raising inside the TooManyRequests handler leaves get_user_tweets *)
ExceptRaises(e) == e.exc = "TooManyRequests" /\ HeaderRaises(e.hdr)

(* line 80 *)
TweetTexts(data) == [i \in 1..Len(data) |-> data[i].text]

(* lines 82-87 *)
Success(data, ui) ==
    [returned |-> TRUE, success |-> TRUE, error |-> <<>>,
     tweets |-> TweetTexts(data), user_info |-> ui,
     tweet_count |-> Len(TweetTexts(data))]

Event(op, d, res) == [op |-> op, d |-> d, res |-> res]

----------------------------------------------------------------------------
(* run and analyze_user *)

Inputs ==
    { <<"q">>, <<"Q">>, <<"q", "u", "i", "t">>, <<"Q", "u", "I", "T">>,
      <<"E", "X", "I", "T">>, <<" ", "q", " ">>, <<>>, <<" ">>,
      <<"b", "o">>, <<"@", "@", "b", "o", " ">> }

(* IsExit without the .lower() of line 284 *)
IsExit_CaseSensitive(u) == u \in ExitKeywords

(* line 284 *)
IsExit(u) == Lower(u) \in ExitKeywords

UnexpectedMsg(m) == <<Lit("Unexpected error: "), Lit(m)>>

(* The records kept for one handle start afresh with each call of input() *)
NewIteration ==
    /\ log' = <<>>
    /\ user_info' = NoUser
    /\ tweets_response' = <<>>
    /\ rate' = NoRate
    /\ result' = NoResult
    /\ attempt' = 0
    /\ delay' = 0
    /\ response' = NoResponse
    /\ insights' = NoInsights

(* lines 280-292: one line read by input() *)
RunInput ==
    /\ pc = "prompt"
    /\ \E line \in Inputs :
          LET u == Strip(line) IN
          /\ username' = u
          /\ IF IsExit(u)
             THEN /\ out' = GoodbyeMsg
                  /\ pc' = "exited"
                  /\ exitCode' = 0
             ELSE IF u = <<>>
             THEN /\ out' = <<Lit("Please enter a valid username.")>>
                  /\ UNCHANGED <<pc, exitCode>>
             ELSE /\ out' = <<Lit("Analyzing @"), Txt(LStripAt(u)), Lit("...")>>
                  /\ pc' = "pause"
                  /\ UNCHANGED exitCode
    /\ NewIteration
    /\ UNCHANGED <<env, agent, interrupted>>

(* lines 282, 297-298: input() raises EOFError at the end of stdin *)
RunInputEOF ==
    /\ pc = "prompt"
    /\ out' = UnexpectedMsg("EOF when reading a line")
    /\ NewIteration
    /\ UNCHANGED <<pc, env, agent, exitCode, username, interrupted>>

(* lines 294-296: KeyboardInterrupt inside the try of run; at the prompt *)
(* it interrupts the input() call of a new iteration                     *)
Interrupt ==
    /\ pc \in {"prompt", "pause", "get_user", "get_users_tweets", "post", "sleep"}
    /\ interrupted' = TRUE
    /\ out' = GoodbyeMsg
    /\ pc' = "exited"
    /\ exitCode' = 0
    /\ IF pc = "prompt"
       THEN NewIteration
       ELSE UNCHANGED <<log, user_info, tweets_response, rate, result,
                        attempt, delay, response, insights>>
    /\ UNCHANGED <<env, agent, username>>

(* line 236 *)
Pause ==
    /\ pc = "pause"
    /\ log' = Append(log, Event("pause", throttle, ""))
    /\ pc' = "get_user"
    /\ UNCHANGED <<env, agent, exitCode, username, interrupted, out,
                   user_info, tweets_response, rate, result, attempt, delay,
                   response, insights>>

NoTweetsMsg(u) == <<Lit("No tweets found for @"), Txt(LStripAt(u))>>
FailureOut(r) == <<Lit("X ")>> \o r.error
NoTweetsAvailable == <<Lit("No tweets available for analysis.")>>
InsightsOut(u, text) ==
    <<Lit("Insights for @"), Txt(LStripAt(u)), Lit(":")>> \o text

(* lines 265-271: generate_insights returned text to analyze_user *)
Return(text) ==
    /\ insights' = [returned |-> TRUE, text |-> text]
    /\ out' = InsightsOut(username, text)
    /\ pc' = "prompt"

(* lines 143-166: generate_insights up to the first pass of the loop *)
GenEnter(tweets) ==
    IF tweets = <<>>
    THEN /\ Return(NoTweetsAvailable)
         /\ UNCHANGED attempt
    ELSE /\ out' = <<Lit("Generating insights...")>>
         /\ attempt' = 0
         /\ pc' = "post"
         /\ UNCHANGED insights

(* AfterFetch without the empty-list test of line 253 *)
AfterFetch_NoEmptyCheck(r) ==
    /\ result' = r
    /\ IF ~r.success
       THEN /\ out' = FailureOut(r)
            /\ pc' = "prompt"
            /\ UNCHANGED <<attempt, insights>>
       ELSE GenEnter(r.tweets)

(* lines 239-265: analyze_user once get_user_tweets returned r *)
AfterFetch(r) ==
    /\ result' = r
    /\ IF ~r.success
       THEN /\ out' = FailureOut(r)
            /\ pc' = "prompt"
            /\ UNCHANGED <<attempt, insights>>
       ELSE IF r.tweets = <<>>
       THEN /\ out' = NoTweetsMsg(username)
            /\ pc' = "prompt"
            /\ UNCHANGED <<attempt, insights>>
       ELSE GenEnter(r.tweets)

(* lines 297-298: an exception that left analyze_user *)
AfterRaise(m) ==
    /\ out' = UnexpectedMsg(m)
    /\ pc' = "prompt"
    /\ UNCHANGED <<result, attempt, insights>>

(* lines 89-130 followed by the caller *)
FetchExcept(e) ==
    /\ rate' = IF e.exc = "TooManyRequests"
               THEN [seen |-> TRUE, hdr |-> e.hdr, now |-> e.now]
               ELSE rate
    /\ IF ExceptRaises(e)
       THEN AfterRaise("invalid literal for int() with base 10")
       ELSE AfterFetch(ExceptResult(e))

Users == { [present |-> TRUE, id |-> i, protected |-> p] :
              i \in UserIds, p \in Protected }

(* IsProtected with the test of the attribute left out *)
IsProtected_Never(ui) == FALSE

(* line 63 *)
IsProtected(ui) == ui.protected = "True"

(* lines 47-69: the request that resolves the handle *)
GetUser ==
    /\ pc = "get_user"
    /\ LET clean_username == LStripAt(username) IN
       \/ \E e \in FeedErrors :
             /\ log' = Append(log, Event("get_user", 0, e.exc))
             /\ user_info' = user_info
             /\ FetchExcept(e)
       \/ /\ log' = Append(log, Event("get_user", 0, "no data"))
          /\ user_info' = user_info
          /\ rate' = rate
          /\ AfterFetch(Failure(NotFoundMsg(clean_username), NoUser))
       \/ \E ui \in Users :
             /\ log' = Append(log, Event("get_user", 0, "data"))
             /\ user_info' = ui
             /\ rate' = rate
             /\ IF IsProtected(ui)
                THEN AfterFetch(Failure(ProtectedMsg(clean_username), ui))
                ELSE /\ pc' = "get_users_tweets"
                     /\ UNCHANGED <<out, result, attempt, insights>>
    /\ UNCHANGED <<env, agent, exitCode, username, interrupted,
                   tweets_response, delay, response>>

(* lines 72-87: the request that lists the posts; a response whose data *)
(* is None is the empty sequence *)
GetUsersTweets ==
    /\ pc = "get_users_tweets"
    /\ \/ \E e \in FeedErrors :
             /\ log' = Append(log, Event("get_users_tweets", 0, e.exc))
             /\ tweets_response' = tweets_response
             /\ FetchExcept(e)
       \/ \E data \in SeqsUpTo(Tweets, max_results) :
             /\ log' = Append(log, Event("get_users_tweets", 0, "data"))
             /\ tweets_response' = data
             /\ rate' = rate
             /\ AfterFetch(Success(data, user_info))
    /\ UNCHANGED <<env, agent, exitCode, username, interrupted, user_info,
                   delay, response>>

----------------------------------------------------------------------------
(* generate_insights: the retry loop around requests.post *)

TextChars == {" ", "a"}
Texts == SeqsUpTo(TextChars, MaxTextLen)
OtherTexts == { <<"z">> }   \* text of the choices after the first
ChoiceLists ==
    { <<>> } \cup { <<t>> \o rest : t \in Texts,
                                    rest \in SeqsUpTo(OtherTexts, MaxChoices - 1) }
OtherStatuses == {400, 500}
Bodies == {"", "bad gateway"}

Http(status, body, choices) ==
    [kind |-> "http", status |-> status, body |-> body, choices |-> choices,
     msg |-> ""]

Raised(kind, m) ==
    [kind |-> kind, status |-> 0, body |-> "", choices |-> <<>>, msg |-> m]

(* What one requests.post can do: a response with a status, or one of *)
(* Timeout, another RequestException, or any other exception.  A 200   *)
(* response without a first choice makes line 191 raise.               *)
PostOutcomes ==
    { Http(200, "", c) : c \in ChoiceLists }
    \cup { Http(429, "slow down", <<>>) }
    \cup { Http(st, b, <<>>) : st \in OtherStatuses, b \in Bodies }
    \cup { Raised("Timeout", "timed out"),
           Raised("RequestException", "connection refused"),
           Raised("Exception", "boom") }

BusyMsg ==
    <<Lit("AI service is currently busy. Please try again in a few minutes.")>>
TimedOutMsg == <<Lit("Request timed out. Please try again.")>>
ConnectErrorMsg(m) == <<Lit("Error connecting to AI service: "), Lit(m)>>
GenErrorMsg(m) == <<Lit("Error generating insights: "), Lit(m)>>
StatusErrorMsg(status, body) ==
    <<Lit("Error generating insights: "), Num(status), Lit(" - "), Lit(body)>>
FallThroughMsg ==
    <<Lit("Failed to generate insights after multiple attempts. Please try again later.")>>

RECURSIVE Pow2(_)
Pow2(k) == IF k = 0 THEN 1 ELSE 2 * Pow2(k - 1)

(* Backoff with 2 * attempt for 2 ** attempt *)
Backoff_Times(a) == base_delay * (2 * a)

(* lines 196, 207, 215 *)
Backoff(a) == base_delay * Pow2(a)

(* AttemptsRemain with the bound off by one *)
AttemptsRemain_OffByOne(a) == a < max_retries

(* lines 195, 206, 214 *)
AttemptsRemain(a) == a < max_retries - 1

(* IsTransient that also retries server errors *)
IsTransient_ServerErrors(o) ==
    \/ o.kind = "http" /\ (o.status = 429 \/ o.status >= 500)
    \/ o.kind = "Timeout"
    \/ o.kind = "RequestException"

(* lines 193, 205, 213: the outcomes that are retried *)
IsTransient(o) ==
    \/ o.kind = "http" /\ o.status = 429
    \/ o.kind = "Timeout"
    \/ o.kind = "RequestException"

(* ExhaustedMsg with one message for every kind of failure *)
ExhaustedMsg_AllBusy(o) == BusyMsg

(* lines 201, 212, 220: the value returned when no attempt remains *)
ExhaustedMsg(o) ==
    CASE o.kind = "http" -> BusyMsg
      [] o.kind = "Timeout" -> TimedOutMsg
      [] OTHER -> ConnectErrorMsg(o.msg)

(* FinalMsg without the .strip() of line 191 *)
FinalMsg_NoStrip(o) ==
    CASE o.kind = "http" /\ o.status = 200 /\ o.choices # <<>> ->
             <<Txt(o.choices[1])>>
      [] o.kind = "http" /\ o.status = 200 /\ o.choices = <<>> ->
             GenErrorMsg("list index out of range")
      [] o.kind = "http" -> StatusErrorMsg(o.status, o.body)
      [] OTHER -> GenErrorMsg(o.msg)

(* lines 189-192, 203, 222: the value returned by an outcome not retried *)
FinalMsg(o) ==
    CASE o.kind = "http" /\ o.status = 200 /\ o.choices # <<>> ->
             <<Txt(Strip(o.choices[1]))>>
      [] o.kind = "http" /\ o.status = 200 /\ o.choices = <<>> ->
             GenErrorMsg("list index out of range")
      [] o.kind = "http" -> StatusErrorMsg(o.status, o.body)
      [] OTHER -> GenErrorMsg(o.msg)

ResKind(o) ==
    CASE o.kind = "http" /\ o.status = 200 -> "200"
      [] o.kind = "http" /\ o.status = 429 -> "429"
      [] o.kind = "http" -> "other"
      [] OTHER -> o.kind

(* lines 166-222: one pass of the loop body up to a sleep or a return *)
GenRequest ==
    /\ pc = "post"
    /\ \E o \in PostOutcomes :
          /\ response' = o
          /\ log' = Append(log, Event("post", 0, ResKind(o)))
          /\ IF IsTransient(o)
             THEN IF AttemptsRemain(attempt)
                  THEN /\ delay' = Backoff(attempt)
                       /\ out' = <<Lit("Retrying in "), Num(Backoff(attempt)),
                                   Lit(" seconds...")>>
                       /\ pc' = "sleep"
                       /\ UNCHANGED insights
                  ELSE /\ Return(ExhaustedMsg(o))
                       /\ UNCHANGED delay
             ELSE /\ Return(FinalMsg(o))
                  /\ UNCHANGED delay
    /\ UNCHANGED <<env, agent, exitCode, username, interrupted, user_info,
                   tweets_response, rate, result, attempt>>

(* lines 198-199, 209-210, 217-218, 166, 224: the sleep, then the next *)
(* value of the loop index or the end of the loop                      *)
GenSleep ==
    /\ pc = "sleep"
    /\ log' = Append(log, Event("sleep", delay, ""))
    /\ attempt' = attempt + 1
    /\ IF attempt + 1 < max_retries
       THEN /\ pc' = "post"
            /\ UNCHANGED <<out, insights>>
       ELSE Return(FallThroughMsg)
    /\ UNCHANGED <<env, agent, exitCode, username, interrupted, user_info,
                   tweets_response, rate, result, delay, response>>

----------------------------------------------------------------------------

Next ==
    \/ Startup
    \/ RunInput
    \/ RunInputEOF
    \/ Interrupt
    \/ Pause
    \/ GetUser
    \/ GetUsersTweets
    \/ GenRequest
    \/ GenSleep

Spec == Init /\ [][Next]_vars

----------------------------------------------------------------------------
(* Views of the log used by the properties *)

IsPost(e) == e.op = "post"
IsSleep(e) == e.op = "sleep"
IsGen(e) == e.op \in {"post", "sleep"}
IsPause(e) == e.op = "pause"
IsGetUser(e) == e.op = "get_user"
IsListing(e) == e.op = "get_users_tweets"

GenLog == SelectSeq(log, IsGen)
PostLog == SelectSeq(log, IsPost)
SleepLog == SelectSeq(log, IsSleep)
PostKinds == [i \in 1..Len(PostLog) |-> PostLog[i].res]
SleepDelays == [i \in 1..Len(SleepLog) |-> SleepLog[i].d]

Contains(msg, tok) == \E i \in 1..Len(msg) : msg[i] = tok

(* t is s without its leading and trailing whitespace *)
Trimmed(t, s) ==
    \E i \in 0..Len(s), j \in 0..Len(s) :
        /\ i + j <= Len(s)
        /\ t = SubSeq(s, i + 1, Len(s) - j)
        /\ \A k \in 1..i : s[k] = " "
        /\ \A k \in (Len(s) - j + 1)..Len(s) : s[k] = " "
        /\ t # <<>> => (t[1] # " " /\ t[Len(t)] # " ")

TransientKinds == {"429", "Timeout", "RequestException"}

----------------------------------------------------------------------------
(* C1: when the first two requests of a generate_insights call are answered *)
(* 429 and the third 200 with a first choice, the call returns the trimmed  *)
(* text of that choice after exactly the events request, sleep 1, request,  *)
(* sleep 2, request.                                                        *)
C1_Case ==
    /\ insights.returned
    /\ PostKinds = <<"429", "429", "200">>
    /\ response.choices # <<>>

C1_RetryThenSuccess ==
    C1_Case =>
        /\ Len(insights.text) = 1
        /\ insights.text[1].k = "txt"
        /\ Trimmed(insights.text[1].t, response.choices[1])
        /\ GenLog = <<Event("post", 0, "429"), Event("sleep", 1, ""),
                      Event("post", 0, "429"), Event("sleep", 2, ""),
                      Event("post", 0, "200")>>

C1_Witness ==
    /\ C1_Case
    /\ response.choices = << <<" ", "a">>, <<"z">> >>
    /\ insights.text = <<Txt(<<"a">>)>>

(* C2: when every request is answered 429, the call returns the busy       *)
(* message after request, sleep 1, request, sleep 2, request; after the    *)
(* third 429 there is neither a sleep nor a fourth request.                *)
C2_AllRateLimited ==
    /\ Len(PostKinds) <= 3
    /\ PostKinds = <<"429", "429", "429">> =>
          /\ pc \notin {"post", "sleep"}
          /\ insights.returned
          /\ insights.text
               = <<Lit("AI service is currently busy. Please try again in a few minutes.")>>
          /\ GenLog = <<Event("post", 0, "429"), Event("sleep", 1, ""),
                        Event("post", 0, "429"), Event("sleep", 2, ""),
                        Event("post", 0, "429")>>

C2_Witness ==
    /\ PostKinds = <<"429", "429", "429">>
    /\ pc = "prompt"
    /\ insights.returned

(* C3, as claimed: a call whose three attempts all hit a transient failure  *)
(* returns the same busy message, whatever the last failure was.            *)
C3_Exhausted ==
    /\ Len(PostKinds) = 3
    /\ \A i \in 1..3 : PostKinds[i] \in TransientKinds
    /\ pc \notin {"post", "sleep"}

C3_SameBusyMessage ==
    C3_Exhausted => (insights.returned /\ insights.text = BusyMsg)

(* C3, amended: such a call returns a value, and the value is the message   *)
(* of the kind of failure the third attempt hit: the busy message for 429,  *)
(* "Request timed out. Please try again." for a timeout, "Error connecting  *)
(* to AI service: <error>" for a connection error.                          *)
C3_MessagePerLastFailure ==
    C3_Exhausted =>
        /\ insights.returned
        /\ pc \in {"prompt", "exited"}
        /\ out[1] # Lit("Unexpected error: ")
        /\ PostKinds[3] = "429" => insights.text = BusyMsg
        /\ PostKinds[3] = "Timeout" => insights.text = TimedOutMsg
        /\ PostKinds[3] = "RequestException" =>
              insights.text = ConnectErrorMsg(response.msg)

C3_Witness ==
    /\ C3_Exhausted
    /\ PostKinds = <<"Timeout", "429", "RequestException">>
    /\ insights.text = ConnectErrorMsg("connection refused")

(* C4: a response whose status is neither 200 nor 429 is the last event of  *)
(* the call on whichever attempt it arrives: the call has returned a        *)
(* message containing the status code and the body, with no sleep and no    *)
(* request after it.                                                        *)
C4_OtherStatusFailsAtOnce ==
    \A i \in 1..Len(log) :
        (log[i].op = "post" /\ log[i].res = "other") =>
            /\ i = Len(log)
            /\ response.kind = "http"
            /\ response.status \notin {200, 429}
            /\ insights.returned
            /\ Contains(insights.text, Num(response.status))
            /\ Contains(insights.text, Lit(response.body))
            /\ pc \notin {"post", "sleep"}

C4_Witness ==
    /\ PostKinds = <<"Timeout", "429", "other">>
    /\ response.status = 500
    /\ response.body = "bad gateway"
    /\ insights.returned

(* C5, as claimed: a rate-limited fetch reports a wait of reset - now        *)
(* seconds whenever the response carries a reset timestamp, and the         *)
(* 15-minute wait only when it carries none.                                *)
HasResetTimestamp == rate.hdr.kind = "val" /\ IsIntLiteral(rate.hdr.val)
ResetEpoch == IntOf(rate.hdr.val)

C5_Case == rate.seen /\ result.returned

C5_WaitIsResetMinusNow ==
    C5_Case =>
        /\ HasResetTimestamp => result.error = WaitMsg(ResetEpoch - rate.now)
        /\ result.error = GenericWaitMsg => ~HasResetTimestamp

(* C5, amended: the reported wait is reset - now seconds when the response  *)
(* carries a reset timestamp that lies in the future (reset - now > 0); the *)
(* 15-minute wait is reported when there is no reset timestamp or when      *)
(* reset - now <= 0.                                                        *)
C5_WaitWhenPositive ==
    C5_Case =>
        /\ ~result.success
        /\ (HasResetTimestamp /\ ResetEpoch - rate.now > 0) =>
              result.error = WaitMsg(ResetEpoch - rate.now)
        /\ (~HasResetTimestamp \/ ResetEpoch - rate.now <= 0) =>
              result.error = GenericWaitMsg

C5_Witness ==
    /\ C5_Case
    /\ rate.hdr.val = <<"2", "0">>
    /\ rate.now = 3
    /\ result.error = WaitMsg(17)

C5_WitnessPast ==
    /\ C5_Case
    /\ rate.hdr.val = <<"2">>
    /\ rate.now = 3
    /\ result.error = GenericWaitMsg

(* C6: for a handle entered in the loop the fetcher is invoked at most once *)
(* and exactly once when the handle has been dealt with, after exactly one  *)
(* pause of 1; the generator runs only after the fetch returned success     *)
(* with at least one post.                                                  *)
Count(Test(_)) == Len(SelectSeq(log, Test))
InGenerator == pc \in {"post", "sleep"} \/ Count(IsPost) > 0 \/ insights.returned
HandleDone == pc = "prompt" /\ log # <<>>

C6_FetchOnceThenGenerate ==
    /\ Count(IsGetUser) <= 1
    /\ Count(IsListing) <= 1
    /\ Count(IsPause) <= 1
    /\ Len(log) >= 1 => log[1] = Event("pause", 1, "")
    /\ Len(log) >= 2 => log[2].op = "get_user"
    /\ (HandleDone \/ result.returned) =>
          (Count(IsGetUser) = 1 /\ Count(IsPause) = 1)
    /\ InGenerator =>
          /\ result.returned
          /\ result.success
          /\ Len(result.tweets) >= 1
          /\ \A i \in 1..Len(log) : IsGen(log[i]) => i > 3
    /\ (result.returned /\ (~result.success \/ result.tweets = <<>>)) =>
          /\ ~InGenerator
          /\ pc \in {"prompt", "exited"}

C6_Witness ==
    /\ HandleDone
    /\ result.returned
    /\ result.success
    /\ Len(result.tweets) = 1
    /\ insights.returned
    /\ Count(IsPost) = 2

C6_WitnessFailed ==
    /\ HandleDone
    /\ result.returned
    /\ ~result.success
    /\ Count(IsListing) = 1

(* C7: once the loop runs, a step ends it only by reading an exit keyword    *)
(* (quit, exit or q in any letter case) or by an interrupt, and then with   *)
(* exit code 0; reading an exit keyword always ends it; every fetch failure,*)
(* empty post list and generator result leads back to the prompt.           *)
LoopStates == {"prompt", "pause", "get_user", "get_users_tweets", "post", "sleep"}

ExitSpellings ==
    { <<a>> : a \in {"q", "Q"} }
    \cup { <<a, b, c, d>> : a \in {"q", "Q"}, b \in {"u", "U"},
                            c \in {"i", "I"}, d \in {"t", "T"} }
    \cup { <<a, b, c, d>> : a \in {"e", "E"}, b \in {"x", "X"},
                            c \in {"i", "I"}, d \in {"t", "T"} }

C7_EndsOnlyOnExitOrInterrupt ==
    (pc \in LoopStates /\ pc' = "exited") =>
        /\ exitCode' = 0
        /\ \/ interrupted'
           \/ pc = "prompt" /\ username' \in ExitSpellings

C7_OutcomesReturnToPrompt ==
    /\ (pc \in LoopStates /\ ~interrupted') =>
          (pc' \in LoopStates \/ (pc = "prompt" /\ username' \in ExitSpellings))
    /\ (~result.returned /\ result'.returned
           /\ (~result'.success \/ result'.tweets = <<>>)) => pc' = "prompt"
    /\ (~insights.returned /\ insights'.returned) => pc' = "prompt"
    /\ pc' \in LoopStates => exitCode' = Running

C7_LoopSurvives ==
    /\ [](username \in ExitSpellings => (pc = "exited" /\ exitCode = 0))
    /\ [][C7_EndsOnlyOnExitOrInterrupt /\ C7_OutcomesReturnToPrompt]_vars

C7_Witness ==
    /\ pc = "exited"
    /\ exitCode = 0
    /\ ~interrupted
    /\ username = <<"Q", "u", "I", "T">>

(* C8: with the bearer token or the completion key unset or empty the       *)
(* program prints the configuration error and exits with code 1 without     *)
(* reading a handle or making a request; with both present it enters the    *)
(* loop, whatever the model variable is.                                    *)
TokenMissing == env.TWITTER_BEARER_TOKEN \in {Unset, ""}
KeyMissing == env.OPENROUTER_API_KEY \in {Unset, ""}

C8_MissingCredentialIsFatal ==
    pc # "start" =>
        /\ (TokenMissing \/ KeyMissing) =>
              /\ pc = "exited"
              /\ exitCode = 1
              /\ out[1] = Lit("Configuration Error: ")
              /\ username = <<>>
              /\ log = <<>>
              /\ ~interrupted
        /\ ~(TokenMissing \/ KeyMissing) =>
              /\ exitCode # 1
              /\ out # ConfigErrorMsg
              /\ pc \in LoopStates \cup {"exited"}
              /\ pc = "exited" => (interrupted \/ username # <<>>)

C8_Witness ==
    /\ pc = "exited"
    /\ exitCode = 1
    /\ env.TWITTER_BEARER_TOKEN = "tok"
    /\ env.OPENROUTER_API_KEY = ""

C8_WitnessEntered ==
    /\ pc = "prompt"
    /\ env.OPENROUTER_MODEL = Unset
    /\ agent.openrouter_model = DefaultModel

(* C9: a handle that does not resolve gives success = false with the "not   *)
(* found" error, a protected account gives success = false with the         *)
(* "private/protected" error, both with no posts and no listing request;    *)
(* the listing request follows only a resolved, unprotected account, and a  *)
(* successful result carries at most 5 texts in the order of the response.  *)
Unresolved == Count(IsGetUser) = 1 /\ log[2].res = "no data"
MarkedProtected == Count(IsGetUser) = 1 /\ user_info.protected = "True"

C9_NotFoundProtectedAndOrder ==
    /\ Unresolved =>
          /\ result.returned /\ ~result.success /\ result.tweets = <<>>
          /\ result.error[1] = Lit("User '@")
          /\ result.error[3]
               = Lit("' not found. Please check the username and try again.")
          /\ \A i \in 1..Len(result.error[2].t) : result.error[2].t[i] # "@"
          /\ Count(IsListing) = 0
    /\ MarkedProtected =>
          /\ result.returned /\ ~result.success /\ result.tweets = <<>>
          /\ result.error[1] = Lit("Account '@")
          /\ result.error[3]
               = Lit("' is private/protected. Cannot access tweets.")
          /\ Count(IsListing) = 0
    /\ (Count(IsListing) = 1 \/ pc = "get_users_tweets") =>
          /\ log[2] = Event("get_user", 0, "data")
          /\ user_info.present
          /\ user_info.protected # "True"
    /\ (result.returned /\ result.success) =>
          /\ Count(IsListing) = 1
          /\ Len(result.tweets) <= 5
          /\ Len(result.tweets) = Len(tweets_response)
          /\ \A i \in 1..Len(result.tweets) :
                result.tweets[i] = tweets_response[i].text
          /\ result.tweet_count = Len(result.tweets)

C9_Witness ==
    /\ result.returned
    /\ result.success
    /\ result.tweets = <<"p1", "p2", "p2", "p1", "p1">>

C9_WitnessProtected ==
    /\ MarkedProtected
    /\ result.returned
    /\ username = <<"@", "@", "b", "o">>

(* C10: whatever the endpoint does, a generate_insights call makes between  *)
(* 1 and 3 requests and at most 2 sleeps, the sleep after the failed        *)
(* attempt k lasts 2^k seconds (1, then 2; never 4; 3 in total at most),    *)
(* every step of the call is a request or a sleep, so the call ends, and it *)
(* never returns the fall-through message.                                  *)
BackoffTable == <<1, 2>>

C10_Bounded ==
    /\ Len(PostKinds) <= 3
    /\ Len(SleepDelays) <= 2
    /\ Len(GenLog) <= 5
    /\ \A i \in 1..Len(GenLog) :
          GenLog[i].op = (IF i % 2 = 1 THEN "post" ELSE "sleep")
    /\ \A k \in 1..Len(SleepDelays) :
          /\ SleepDelays[k] = BackoffTable[k]
          /\ PostKinds[k] \in TransientKinds
    /\ pc = "sleep" => (delay = BackoffTable[attempt + 1]
                           /\ Len(SleepDelays) = attempt)
    /\ pc = "post" => Len(PostKinds) = attempt
    /\ insights.returned =>
          /\ Len(PostKinds) \in 1..3
          /\ Len(PostKinds) = Len(SleepDelays) + 1
          /\ insights.text
               # <<Lit("Failed to generate insights after multiple attempts. Please try again later.")>>

C10_Progress ==
    pc \in {"post", "sleep"} =>
        \/ pc' = "exited"
        \/ pc' = "prompt" /\ insights'.returned
        \/ pc' \in {"post", "sleep"} /\ Len(GenLog') = Len(GenLog) + 1

C10_TerminatesWithinThreeAttempts ==
    /\ []C10_Bounded
    /\ [][C10_Progress]_vars

C10_Witness ==
    /\ insights.returned
    /\ PostKinds = <<"RequestException", "Timeout", "Exception">>
    /\ SleepDelays = <<1, 2>>

====
